---- MODULE Spec2Model ----
(***************************************************************************)
(* Verification model of the disaster-intelligence-platform backend:      *)
(*   - app/services/optimizer.py        ResourceAllocator                 *)
(*   - app/services/risk_engine/*.py    risk fusion, spillover, classes   *)
(*   - app/jobs/scheduler.py            the risk recomputation cycle      *)
(*                                                                         *)
(* Arithmetic.  The code computes in floating point; the model computes    *)
(* the same quantities exactly, in integers:                               *)
(*   - need scores are integers (only their ratios reach the allocation),  *)
(*   - a proportional share  remaining * need / total_need  is kept as the *)
(*     numerator  remaining * need  over the common denominator total_need,*)
(*   - risk values of the fusion engine are counted in 1/10000 of a risk   *)
(*     point (RiskScale), so that a value rounded to two decimals and the  *)
(*     product of such a value with 1.05 are both integers.                *)
(***************************************************************************)
EXTENDS Integers, Sequences, FiniteSets, TLC

----------------------------------------------------------------------------
(* Bounds of the model                                                     *)

MaxWards == 3
MaxNeed == 2
MaxTotal == 4
MaxOptWards == 2
MaxCycles == 2

----------------------------------------------------------------------------
(* Generic helpers                                                         *)

Max(a, b) == IF a >= b THEN a ELSE b
Min(a, b) == IF a <= b THEN a ELSE b

RECURSIVE SumSeq(_)
SumSeq(s) == IF s = <<>> THEN 0 ELSE Head(s) + SumSeq(Tail(s))

\* math.floor(a / b) for b > 0 (TLC's \div rounds toward minus infinity)
Floor(a, b) == a \div b

----------------------------------------------------------------------------
(* State                                                                   *)

VARIABLES
    wards_needs,       \* allocate_resource argument: list of {need_score, risk_category}
    total_available,   \* allocate_resource argument
    min_for_critical,  \* allocate_resource argument
    allocations,       \* allocate_resource return value: "allocated" per list position
    alloc_pc,          \* "idle" | "ready" | "returned" | "raised"
    ward_risk_data,    \* optimize_allocation argument: list of ward risk dicts
    resources,         \* optimize_allocation argument: resource key -> config
    resource_order,    \* the order of resources.items(): the keys as the dict holds them
    use_delta,         \* optimize_allocation argument
    opt_allocations,   \* optimize_allocation result["allocations"]
    opt_pc,            \* "idle" | "ready" | "returned"
    table,             \* committed ward_risk_scores rows, oldest first
    pending,           \* rows added to the running cycle's session, not yet committed
    pos,               \* 0: no cycle runs; i: the cycle is about to process ward i;
                       \* NumWards + 1: the loop is over, the commit is next
    cycles,            \* number of cycles that have ended
    scratch,           \* result of the last calculate_full_risk call made without db
    risk_args,         \* arguments of a direct calculate_full_risk call
    ward_order,        \* the running cycle's `wards` list (db.query(Ward).all())
    weather_data,      \* the running cycle's weather_data: the wards it has an entry for
    failed,            \* the wards whose pass of the running cycle's loop raised
    cache,             \* the Redis entries dip:risk:<ward_id>, one record per ward at most
    redis_available,   \* what _is_redis_available() returns
    flood_event_w,     \* settings.FLOOD_EVENT_WEIGHTS, in hundredths
    interleaved        \* history: another job has committed since the running
                       \* cycle began

allocVars == <<wards_needs, total_available, min_for_critical, allocations, alloc_pc>>

optVars == <<ward_risk_data, resources, resource_order, use_delta,
            opt_allocations, opt_pc>>

riskVars == <<table, pending, pos, cycles, scratch, risk_args,
              ward_order, weather_data, failed, cache, redis_available,
              flood_event_w, interleaved>>

vars == <<allocVars, optVars, riskVars>>

\* None
NoRecord == [ward_id |-> 0]

\* settings.FLOOD_EVENT_WEIGHTS as configured (db/config.py), in hundredths
FLOOD_EVENT_WEIGHTS ==
    [forecast_rainfall_intensity |-> 60,
     cumulative_rain_48h         |-> 20,
     baseline_vulnerability      |-> 20]

\* The process after start-up: no cycle has run, nothing is cached, the
\* weights are the configured ones
RiskIdle ==
    /\ table = <<>>
    /\ pending = <<>>
    /\ pos = 0
    /\ cycles = 0
    /\ scratch = NoRecord
    /\ risk_args = NoRecord
    /\ ward_order = <<>>
    /\ weather_data = {}
    /\ failed = {}
    /\ cache = {}
    /\ redis_available = TRUE
    /\ flood_event_w = FLOOD_EVENT_WEIGHTS
    /\ interleaved = FALSE

\* The allocator is not in use
AllocIdle ==
    /\ wards_needs = <<>>
    /\ total_available = 0
    /\ min_for_critical = 0
    /\ allocations = <<>>
    /\ alloc_pc = "idle"

\* optimize_allocation is not in use
OptIdle ==
    /\ ward_risk_data = <<>>
    /\ resources = <<>>
    /\ resource_order = <<>>
    /\ use_delta = FALSE
    /\ opt_allocations = <<>>
    /\ opt_pc = "idle"

----------------------------------------------------------------------------
(* db/config.py : Settings, and composite.py : get_risk_category           *)

\* Risk values are counted in 1/RiskScale of a risk point
RiskScale == 100 * 100

RISK_LOW_THRESHOLD == 30
RISK_MODERATE_THRESHOLD == 60
RISK_HIGH_THRESHOLD == 80

\* CompositeRiskCalculator.get_risk_category(score), score in 1/RiskScale
get_risk_category(score) ==
    IF score >= RISK_HIGH_THRESHOLD * RiskScale THEN "critical"
    ELSE IF score >= RISK_MODERATE_THRESHOLD * RiskScale THEN "high"
    ELSE IF score >= RISK_LOW_THRESHOLD * RiskScale THEN "moderate"
    ELSE "low"

----------------------------------------------------------------------------
(* optimizer.py : ResourceAllocator.allocate_resource                      *)

Categories == {"low", "moderate", "high", "critical"}

\* w.get("risk_category") in ["critical", "high"]
IsCritical(w) == w.risk_category \in {"critical", "high"}

\* total_need = sum(w["need_score"] for w in wards_needs)
TotalNeed(wn) == SumSeq([i \in 1..Len(wn) |-> wn[i].need_score])

\* critical_wards = [...]; guaranteed = len(critical_wards) * min_for_critical
Guaranteed(wn, minc) ==
    Cardinality({i \in 1..Len(wn) : IsCritical(wn[i])}) * minc

\* remaining = max(0, total_available - guaranteed)
Remaining(wn, total, minc) == Max(0, total - Guaranteed(wn, minc))

\* Faulty variant: the guaranteed units are left out of the floor
GuaranteedUnits_Dropped(w, minc) == 0

\* guaranteed_units = min_for_critical if is_critical else 0
GuaranteedUnits(w, minc) == IF IsCritical(w) THEN minc ELSE 0

\* The entry appended to `allocations` for ward w.  proportion and ideal are
\* fractions over total_need: ideal = ideal_num / total_need.
\*   "floor":     math.floor(ideal) + guaranteed_units
\*   "remainder": (ideal + guaranteed_units) - math.floor(ideal) - guaranteed_units
\*                (kept as its numerator over total_need)
AllocEntry(w, remaining, total_need, minc) ==
    LET ideal_num == remaining * w.need_score
    IN  [floor     |-> Floor(ideal_num, total_need) + GuaranteedUnits(w, minc),
         remainder |-> ideal_num - total_need * Floor(ideal_num, total_need)]

\* leftover = total_available - total_floor
Leftover(entries, total) ==
    total - SumSeq([i \in 1..Len(entries) |-> entries[i].floor])

\* Faulty variant: the sort lacks reverse=True (smallest remainder first)
SortedRank_Ascending(entries, i) ==
    Cardinality({j \in 1..Len(entries) :
        \/ entries[j].remainder < entries[i].remainder
        \/ entries[j].remainder = entries[i].remainder /\ j < i})

\* Position (from 0) of list element i in
\*   sorted(allocations, key=lambda x: x["remainder"], reverse=True)
\* Python's sort is stable, also with reverse=True: entries with equal
\* remainders keep their list order.
SortedRank(entries, i) ==
    Cardinality({j \in 1..Len(entries) :
        \/ entries[j].remainder > entries[i].remainder
        \/ entries[j].remainder = entries[i].remainder /\ j < i})

\* Faulty variant: the extra units go to the first zones of the list, unsorted
ExtraUnit_ListOrder(entries, leftover, i) ==
    IF i - 1 < Min(leftover, Len(entries)) THEN 1 ELSE 0

\* for i in range(min(leftover, len(sorted_alloc))): sorted_alloc[i]["floor"] += 1
ExtraUnit(entries, leftover, i) ==
    IF SortedRank(entries, i) < Min(leftover, Len(entries)) THEN 1 ELSE 0

\* a["allocated"] = max(0, a["floor"])
FinalUnits(floor) == Max(0, floor)

\* Faulty variant: without need, the units are split equally
allocate_resource_EqualSplit(wn, total, minc) ==
    IF Len(wn) = 0 \/ total <= 0 THEN <<>>
    ELSE [i \in 1..Len(wn) |-> total \div Len(wn)]

\* Faulty variant: without units, every ward gets an entry with 0 units
allocate_resource_ZeroEntries(wn, total, minc) ==
    IF Len(wn) = 0 THEN <<>>
    ELSE IF total <= 0 \/ TotalNeed(wn) <= 0 THEN [i \in 1..Len(wn) |-> 0]
    ELSE LET total_need == TotalNeed(wn)
             remaining  == Remaining(wn, total, minc)
             entries    == [i \in 1..Len(wn) |->
                               AllocEntry(wn[i], remaining, total_need, minc)]
             leftover   == Leftover(entries, total)
         IN  [i \in 1..Len(wn) |->
                 FinalUnits(entries[i].floor + ExtraUnit(entries, leftover, i))]

\* The list allocate_resource returns, as the "allocated" value per position;
\* <<>> is the empty list of the first early return.
allocate_resource(wn, total, minc) ==
    IF Len(wn) = 0 \/ total <= 0 THEN <<>>
    ELSE IF TotalNeed(wn) <= 0 THEN [i \in 1..Len(wn) |-> 0]
    ELSE LET total_need == TotalNeed(wn)
             remaining  == Remaining(wn, total, minc)
             entries    == [i \in 1..Len(wn) |->
                               AllocEntry(wn[i], remaining, total_need, minc)]
             leftover   == Leftover(entries, total)
         IN  [i \in 1..Len(wn) |->
                 FinalUnits(entries[i].floor + ExtraUnit(entries, leftover, i))]

----------------------------------------------------------------------------
(* Direct calls of allocate_resource                                       *)

\* min_for_critical of DEFAULT_RESOURCES (1 and 2), and 0
MinForCriticalValues == {0, 1, 2}

\* Categories of the wards passed in direct calls ("moderate" is treated as
\* "low" by allocate_resource: neither is in ["critical", "high"])
CallCategories == {"low", "high", "critical"}

WardNeed(lo) == [need_score : lo..MaxNeed, risk_category : CallCategories]

WardNeedLists(lo) ==
    UNION {[1..n -> WardNeed(lo)] : n \in 0..MaxWards}

InitAllocWith(lo) ==
    /\ wards_needs \in WardNeedLists(lo)
    /\ total_available \in (-1)..MaxTotal
    /\ min_for_critical \in MinForCriticalValues
    /\ allocations = <<>>
    /\ alloc_pc = "ready"
    /\ OptIdle
    /\ RiskIdle

\* need scores as the data model has them: non-negative
InitAlloc == InitAllocWith(0)

\* One call of allocate_resource.  The function has no raise statement and
\* every expression of it is defined on numeric need scores, so the call
\* always returns.
CallAllocate ==
    /\ alloc_pc = "ready"
    /\ allocations' = allocate_resource(wards_needs, total_available, min_for_critical)
    /\ alloc_pc' = "returned"
    /\ UNCHANGED <<wards_needs, total_available, min_for_critical, optVars, riskVars>>

NextAlloc == CallAllocate

SpecAlloc == InitAlloc /\ [][NextAlloc]_vars

\* Direct calls whose need scores may be negative (a caller's programming
\* error: calculate_need_score never produces one)
InitNeg == InitAllocWith(-1)

SpecNeg == InitNeg /\ [][NextAlloc]_vars

----------------------------------------------------------------------------
(* Claims about allocate_resource                                          *)

\* Units the returned list gives to list position i (0 when the list has no
\* entry for it)
Allocated(i) == IF i \in DOMAIN allocations THEN allocations[i] ELSE 0

CriticalPositions == {i \in 1..Len(wards_needs) : IsCritical(wards_needs[i])}

\* C1: for total_units > 0 and a non-empty zone list whose need scores sum to
\* more than 0, the units returned by allocate_resource sum to exactly
\* total_units, whatever the number of critical/high zones and whatever
\* min_for_critical.
C1_SumEqualsTotal ==
    (/\ alloc_pc = "returned"
     /\ total_available > 0
     /\ Len(wards_needs) > 0
     /\ TotalNeed(wards_needs) > 0)
        => SumSeq(allocations) = total_available

\* C2 as stated: every critical/high zone receives at least
\* min(min_for_critical, total_units) whenever such a zone exists and
\* total_units >= count(critical/high) * min_for_critical.
C2_CriticalMinimum_AsStated ==
    (/\ alloc_pc = "returned"
     /\ CriticalPositions # {}
     /\ total_available >= Guaranteed(wards_needs, min_for_critical))
        => \A i \in CriticalPositions :
              Allocated(i) >= Min(min_for_critical, total_available)

\* C2 amended: the same, provided the (non-negative) need scores sum to more
\* than 0.
C2_CriticalMinimum ==
    (/\ alloc_pc = "returned"
     /\ CriticalPositions # {}
     /\ total_available >= Guaranteed(wards_needs, min_for_critical)
     /\ TotalNeed(wards_needs) > 0)
        => \A i \in CriticalPositions :
              Allocated(i) >= Min(min_for_critical, total_available)

\* A call in which the guarantee decides the result: a critical zone with
\* need 0 sits next to a zone with positive need, and receives exactly the
\* minimum.
C2_Witness ==
    /\ alloc_pc = "returned"
    /\ min_for_critical = 2
    /\ total_available >= Guaranteed(wards_needs, min_for_critical)
    /\ TotalNeed(wards_needs) > 0
    /\ \E i \in CriticalPositions :
          wards_needs[i].need_score = 0 /\ Allocated(i) = 2

\* C4: when the need scores sum to 0, every zone of the list receives 0 units
\* (no equal split), critical and high zones included.
C4_ZeroNeedZeroUnits ==
    (alloc_pc = "returned" /\ TotalNeed(wards_needs) <= 0)
        => /\ \A i \in 1..Len(wards_needs) : Allocated(i) = 0
           /\ total_available > 0 => Len(allocations) = Len(wards_needs)

C4_Witness ==
    /\ alloc_pc = "returned"
    /\ TotalNeed(wards_needs) = 0
    /\ total_available = MaxTotal
    /\ min_for_critical = 1
    /\ Len(wards_needs) = 2
    /\ CriticalPositions = {1}
    /\ allocations = <<0, 0>>

\* C6: a call of allocate_resource with a negative need score fails with an
\* error: it never returns an allocation.
C6_NegativeNeedRaises ==
    (\E i \in 1..Len(wards_needs) : wards_needs[i].need_score < 0)
        => alloc_pc # "returned"

\* C21: allocate_resource returns an empty allocation (no per-zone entry,
\* nothing allocated) whenever total_units <= 0, for any zone list.
C21_EmptyWhenNoUnits ==
    (alloc_pc = "returned" /\ total_available <= 0)
        => /\ allocations = <<>>
           /\ \A i \in 1..Len(wards_needs) : Allocated(i) = 0

\* A call with a negative total for zones with positive need, a critical
\* zone with a guaranteed minimum among them: the list returned is empty.
C21_Witness ==
    /\ alloc_pc = "returned"
    /\ total_available < 0
    /\ Len(wards_needs) >= 2
    /\ TotalNeed(wards_needs) > 0
    /\ CriticalPositions # {}
    /\ min_for_critical = 2
    /\ allocations = <<>>

\* The ideal share of list position i, as a fraction over the total need:
\*   ideal = remaining * need / total_need + guaranteed minimum
\* with remaining = total_units - (number of critical/high zones) * minimum
IdealNum(i) ==
    (total_available - Guaranteed(wards_needs, min_for_critical))
          * wards_needs[i].need_score
      + (IF IsCritical(wards_needs[i]) THEN min_for_critical ELSE 0)
          * TotalNeed(wards_needs)

IdealFloor(i) == IdealNum(i) \div TotalNeed(wards_needs)

IdealFraction(i) == IdealNum(i) % TotalNeed(wards_needs)

\* The zones that received one unit more than the floor of their ideal share
ExtraPositions ==
    {i \in 1..Len(wards_needs) : Allocated(i) = IdealFloor(i) + 1}

\* C22: when the total need is > 0 and total_units >= (number of
\* critical/high zones) x min_for_critical, each zone's allocation is
\* floor(ideal) or floor(ideal) + 1; exactly leftover = total_units - sum of
\* the floors zones receive the extra unit, and no zone that receives it has a
\* smaller fractional remainder than a zone that does not.
C22_LargestRemainder ==
    (/\ alloc_pc = "returned"
     /\ TotalNeed(wards_needs) > 0
     /\ total_available >= Guaranteed(wards_needs, min_for_critical))
        => /\ \A i \in 1..Len(wards_needs) :
                 Allocated(i) \in {IdealFloor(i), IdealFloor(i) + 1}
           /\ Cardinality(ExtraPositions)
                 = total_available
                     - SumSeq([i \in 1..Len(wards_needs) |-> IdealFloor(i)])
           /\ \A i \in ExtraPositions :
                 \A j \in (1..Len(wards_needs)) \ ExtraPositions :
                    IdealFraction(i) >= IdealFraction(j)

\* A call with a critical zone holding a guaranteed minimum, in which one
\* unit is left over and goes to the zone with the larger of two different
\* non-zero remainders, which is not the first of the list.
C22_Witness ==
    /\ alloc_pc = "returned"
    /\ TotalNeed(wards_needs) > 0
    /\ total_available >= Guaranteed(wards_needs, min_for_critical)
    /\ min_for_critical > 0
    /\ CriticalPositions # {}
    /\ \E i, j \in 1..Len(wards_needs) :
          /\ j < i
          /\ i \in ExtraPositions
          /\ j \notin ExtraPositions
          /\ IdealFraction(i) > IdealFraction(j)
          /\ IdealFraction(j) > 0

\* C24: for every input, the units allocate_resource hands out never sum to
\* more than total_units, including when (number of critical/high zones) x
\* min_for_critical exceeds total_units.  (Stated for total_units >= 0: with
\* a negative total nothing is handed out.)
C24_NeverMoreThanTotal ==
    (alloc_pc = "returned" /\ total_available >= 0)
        => SumSeq(allocations) <= total_available

\* The list wn rearranged by the permutation p: position i holds wn[p[i]]
Permuted(wn, p) == [i \in 1..Len(wn) |-> wn[p[i]]]

\* C25: the units a zone receives do not depend on the order of the zones in
\* the input list: for every permutation of the list, allocate_resource
\* gives every zone the units it gave it in the call made, also when
\* fractional remainders tie.
C25_OrderIndependent ==
    (alloc_pc = "returned" /\ allocations # <<>>)
        => \A p \in Permutations(1..Len(wards_needs)) :
              allocate_resource(Permuted(wards_needs, p),
                                total_available, min_for_critical)
                  = Permuted(allocations, p)

----------------------------------------------------------------------------
(* optimizer.py : calculate_need_score, _adjust_for_effectiveness,         *)
(* optimize_allocation                                                     *)
(*                                                                         *)
(* Units of this part: a risk value is a whole number of tens of risk      *)
(* points (0..10), a population a whole number of 50,000 inhabitants, an   *)
(* effectiveness a whole number of tenths.  On these grids every quantity  *)
(* of the code is a fraction with a fixed denominator:                     *)
(*   need_score          = NeedNum / 4800                                  *)
(*   adjusted need_score = AdjustedNum / 96000                             *)
(* and allocate_resource only uses the ratios of the need scores and the   *)
(* sign of their sum, so it is applied to the numerators.                  *)

\* DEFAULT_RESOURCES: total, min_for_critical, effectiveness (in tenths)
DEFAULT_RESOURCES ==
    [water_pumps     |-> [total |-> 50, min_for_critical |-> 2, flood |-> 9, heat |-> 0],
     relief_camps    |-> [total |-> 20, min_for_critical |-> 1, flood |-> 6, heat |-> 6],
     cooling_centers |-> [total |-> 25, min_for_critical |-> 1, flood |-> 0, heat |-> 9]]

ResourceKeys == DOMAIN DEFAULT_RESOURCES

\* pop_normalized = min(1.0, max(0.0, (population - 50000) / 400000)), in eighths;
\* population = ward_risk.get("population", 100000) or 100000
PopNormalized(population) ==
    LET p == IF population = 0 THEN 2 ELSE population
    IN  Min(8, Max(0, p - 1))

\* boost, in sixtieths: 1.0 when no boost applies, else 1.0 + b * risk_gate with
\* risk_gate = min(1.0, risk / 60) and b = 0.5, 0.3 or 0.1 by max_delta
Boost(w, use_d) ==
    LET max_delta == Max(w.flood_risk_delta_pct, w.heat_risk_delta_pct)
        risk_gate == Min(6, w.final_combined_risk)
    IN  IF use_d /\ max_delta > 0
        THEN IF max_delta > 40 THEN 60 + 5 * risk_gate
             ELSE IF max_delta > 20 THEN 60 + 3 * risk_gate
             ELSE 60 + 1 * risk_gate
        ELSE 60

\* calculate_need_score(ward_risk, use_delta), times 4800:
\*   base_need = risk_weight * (0.7 + 0.3 * pop_normalized) * 100 [* boost]
\*   risk_weight = (risk / 100) ** 2
calculate_need_score(w, use_d) ==
    (w.final_combined_risk * w.final_combined_risk)
        * (56 + 3 * PopNormalized(w.population))
        * Boost(w, use_d)

\* The hazard _adjust_for_effectiveness takes for ward w: its top_hazard, or,
\* when that is no key of `effectiveness` ("none"), the larger of flood_risk
\* and heat_risk; "blend" when the two are equal.
EffectiveHazard(w) ==
    IF w.top_hazard \in {"flood", "heat"} THEN w.top_hazard
    ELSE IF w.heat_risk > w.flood_risk THEN "heat"
    ELSE IF w.flood_risk > w.heat_risk THEN "flood"
    ELSE "blend"

\* eff, in twentieths: effectiveness.get(top_hazard, 0.0), or
\* (flood_eff + heat_eff) / 2 for the blend
Effectiveness(w, config) ==
    LET hz == EffectiveHazard(w)
    IN  IF hz = "flood" THEN 2 * config.flood
        ELSE IF hz = "heat" THEN 2 * config.heat
        ELSE config.flood + config.heat

\* _adjust_for_effectiveness(wards, effectiveness): a copy of every ward
\* (ward_copy = dict(w)) with need_score *= eff
adjust_for_effectiveness(wards, config) ==
    [i \in 1..Len(wards) |->
        [need_score    |-> wards[i].need_score * Effectiveness(wards[i], config),
         risk_category |-> wards[i].risk_category]]

\* The dict of ward w with its "need_score" entry set to need
Scored(w, need) ==
    [need_score           |-> need,
     final_combined_risk  |-> w.final_combined_risk,
     risk_category        |-> w.risk_category,
     top_hazard           |-> w.top_hazard,
     flood_risk           |-> w.flood_risk,
     heat_risk            |-> w.heat_risk,
     population           |-> w.population,
     flood_risk_delta_pct |-> w.flood_risk_delta_pct,
     heat_risk_delta_pct  |-> w.heat_risk_delta_pct]

\* for ward in ward_risk_data: ward["need_score"] = self.calculate_need_score(...)
\* The dicts of the caller's list are updated in place.
WithNeedScores(wards, use_d) ==
    [i \in 1..Len(wards) |-> Scored(wards[i], calculate_need_score(wards[i], use_d))]

\* Faulty variant: _adjust_for_effectiveness works on the dicts passed in
\* (ward_copy = w), so the adjusted need score stays on the ward
WardsAfterAdjust_InPlace(wards, config) ==
    [i \in 1..Len(wards) |->
        Scored(wards[i], wards[i].need_score * Effectiveness(wards[i], config))]

\* ward_risk_data after _adjust_for_effectiveness(ward_risk_data, effectiveness):
\* the function multiplies the need score of copies, the wards passed in keep
\* theirs
WardsAfterAdjust(wards, config) == wards

\* The loop `for resource_key, resource_config in resources.items()` over the
\* keys `order`, started with the list `wards`: allocations[resource_key] per
\* key (the units per list position and total_allocated), and the list after
\* the loop
RECURSIVE AllocateEach(_, _, _)
AllocateEach(wards, res, order) ==
    IF order = <<>> THEN [allocations |-> <<>>, wards |-> wards]
    ELSE LET k      == Head(order)
             result == allocate_resource(adjust_for_effectiveness(wards, res[k]),
                                         res[k].total, res[k].min_for_critical)
             rest   == AllocateEach(WardsAfterAdjust(wards, res[k]), res, Tail(order))
         IN  [allocations |->
                 (k :> [ward_allocations |-> result,
                        total_allocated  |-> SumSeq(result)]) @@ rest.allocations,
              wards |-> rest.wards]

\* optimize_allocation(ward_risk_data, resources, use_delta), the resources
\* taken in the order `order`: result["allocations"], and ward_risk_data as
\* the call leaves it
optimize_allocation(wards, res, order, use_d) ==
    AllocateEach(WithNeedScores(wards, use_d), res, order)

\* --- inputs ---

\* final_flood_risk and final_heat_risk of a ward's latest record, in tens of points
RiskLevels == {0, 4, 9}

\* population in units of 50,000 (100,000 and 450,000)
Populations == {2, 9}

\* flood_risk_delta_pct
DeltaPcts == {0, 30}

\* top_hazard as calculate_full_risk derives it (final_risk.py)
TopHazard(flood, heat) ==
    IF flood > heat /\ flood > 3 THEN "flood"
    ELSE IF heat > flood /\ heat > 3 THEN "heat"
    ELSE "none"

\* A ward's entry of wards_data as optimize_resources builds it from the
\* ward's latest record
WardRisk(flood, heat, pop, delta) ==
    [final_combined_risk  |-> Max(flood, heat),
     risk_category        |-> get_risk_category(Max(flood, heat) * 10 * RiskScale),
     top_hazard           |-> TopHazard(flood, heat),
     flood_risk           |-> flood,
     heat_risk            |-> heat,
     population           |-> pop,
     flood_risk_delta_pct |-> delta,
     heat_risk_delta_pct  |-> 0]

WardRisks ==
    {WardRisk(f, h, p, d) : f \in RiskLevels, h \in RiskLevels,
                            p \in Populations, d \in DeltaPcts}

\* the resource configurations of a request: DEFAULT_RESOURCES, or with every
\* total replaced by the requested count
RequestedTotals == {3}

ResourceConfigs ==
    {DEFAULT_RESOURCES} \cup
    {[k \in ResourceKeys |-> [DEFAULT_RESOURCES[k] EXCEPT !.total = c]] :
        c \in RequestedTotals}

\* The keys of DEFAULT_RESOURCES in the order the dict holds them
DefaultOrder == <<"water_pumps", "relief_camps", "cooling_centers">>

InitOpt ==
    /\ ward_risk_data \in UNION {[1..n -> WardRisks] : n \in 1..MaxOptWards}
    /\ resources \in ResourceConfigs
    /\ resource_order = DefaultOrder
    /\ use_delta \in BOOLEAN
    /\ opt_allocations = <<>>
    /\ opt_pc = "ready"
    /\ AllocIdle
    /\ RiskIdle

CallOptimize ==
    /\ opt_pc = "ready"
    /\ LET result == optimize_allocation(ward_risk_data, resources,
                                          resource_order, use_delta)
       IN  /\ opt_allocations' = result.allocations
           /\ ward_risk_data' = result.wards
    /\ opt_pc' = "returned"
    /\ UNCHANGED <<resources, resource_order, use_delta, allocVars, riskVars>>

NextOpt == CallOptimize

SpecOpt == InitOpt /\ [][NextOpt]_vars

\* Units of resource k that optimize_allocation gives to ward i
OptAllocated(k, i) ==
    IF i \in DOMAIN opt_allocations[k].ward_allocations
    THEN opt_allocations[k].ward_allocations[i] ELSE 0

\* C3: a zone whose dominant hazard has effectiveness 0 for a resource type
\* receives 0 units of that resource from optimize_allocation, whatever its
\* risk category.
C3_IneffectiveGetsZero ==
    opt_pc = "returned" =>
        \A k \in DOMAIN resources : \A i \in 1..Len(ward_risk_data) :
            (/\ EffectiveHazard(ward_risk_data[i]) \in {"flood", "heat"}
             /\ Effectiveness(ward_risk_data[i], resources[k]) = 0)
                => OptAllocated(k, i) = 0

\* The risk level at which risk_gate = min(1.0, risk / 60) is fully open, in
\* tens of points
SurgeGateRisk == 6

\* The need score of ward w is boosted: use_delta makes it larger
IsBoosted(w) ==
    calculate_need_score(w, use_delta) > calculate_need_score(w, FALSE)

\* C18: calculate_need_score boosts a zone's need only when the larger of its
\* flood/heat delta_pct is positive and its combined risk has reached the
\* gate; a rising zone below the gate and a zone with non-positive delta get
\* no boost.
C18_BoostOnlyAboveGate ==
    opt_pc = "returned" =>
        \A i \in 1..Len(ward_risk_data) :
            IsBoosted(ward_risk_data[i]) =>
                /\ Max(ward_risk_data[i].flood_risk_delta_pct,
                       ward_risk_data[i].heat_risk_delta_pct) > 0
                /\ ward_risk_data[i].final_combined_risk >= SurgeGateRisk

----------------------------------------------------------------------------
(* optimize_allocation with any choice and order of resource types         *)

\* Wards of 100,000 inhabitants: a flood ward and a heat ward at risk 90, a
\* heat ward at 90 with flood risk 40, a ward with flood and heat risk 40
\* each (no dominant hazard, the effectiveness is blended)
OrderWards ==
    {WardRisk(9, 0, 2, 0), WardRisk(0, 9, 2, 30), WardRisk(4, 9, 2, 0),
     WardRisk(4, 4, 2, 0)}

\* custom_resources of optimize_resources for a request that names the
\* resource types K with the count c each
CustomResources(K, c) ==
    [k \in K |-> [DEFAULT_RESOURCES[k] EXCEPT !.total = c]]

\* The orders in which a dict with the keys K can hold them
KeyOrders(K) ==
    {o \in [1..Cardinality(K) -> K] : \A i, j \in DOMAIN o : o[i] = o[j] => i = j}

InitOrder ==
    /\ ward_risk_data \in UNION {[1..n -> OrderWards] : n \in 1..MaxOptWards}
    /\ \E K \in (SUBSET ResourceKeys) \ {{}} : \E c \in RequestedTotals :
          /\ resources = CustomResources(K, c)
          /\ resource_order \in KeyOrders(K)
    /\ use_delta \in BOOLEAN
    /\ opt_allocations = <<>>
    /\ opt_pc = "ready"
    /\ AllocIdle
    /\ RiskIdle

SpecOrder == InitOrder /\ [][NextOpt]_vars

\* C27: allocating one resource type leaves the zones' base need scores
\* unchanged: after optimize_allocation every zone holds its unadjusted need
\* score, and the allocation of every resource type is the one computed from
\* the unadjusted need scores and that type's effectiveness alone, whatever
\* other types are configured and in whatever order they are processed.
C27_BaseNeedUnchanged ==
    opt_pc = "returned" =>
        /\ \A i \in 1..Len(ward_risk_data) :
              ward_risk_data[i].need_score
                  = calculate_need_score(ward_risk_data[i], use_delta)
        /\ \A k \in DOMAIN resources :
              opt_allocations[k].ward_allocations
                  = allocate_resource(
                        [i \in 1..Len(ward_risk_data) |->
                            [need_score |->
                                 calculate_need_score(ward_risk_data[i], use_delta)
                                     * Effectiveness(ward_risk_data[i], resources[k]),
                             risk_category |-> ward_risk_data[i].risk_category]],
                        resources[k].total, resources[k].min_for_critical)

\* Cooling centers are allocated after water pumps, for which the heat ward
\* of the call has the adjusted need 0 (effectiveness 0): the heat ward still
\* receives cooling centers, next to a flood ward that receives pumps.
C27_Witness ==
    /\ opt_pc = "returned"
    /\ \E a, b \in 1..Len(resource_order) :
          /\ a < b
          /\ resource_order[a] = "water_pumps"
          /\ resource_order[b] = "cooling_centers"
    /\ \E i, j \in 1..Len(ward_risk_data) :
          /\ EffectiveHazard(ward_risk_data[i]) = "heat"
          /\ Effectiveness(ward_risk_data[i], resources["water_pumps"]) = 0
          /\ OptAllocated("cooling_centers", i) > 0
          /\ EffectiveHazard(ward_risk_data[j]) = "flood"
          /\ OptAllocated("water_pumps", j) > 0

----------------------------------------------------------------------------
(* api/routes.py : optimize_resources (POST /api/optimize)                 *)

\* max_risk = max((w.get("final_combined_risk", 0) or 0 for w in wards_data),
\*                default=0), in tens of points
RECURSIVE MaxRiskOf(_)
MaxRiskOf(wards) ==
    IF wards = <<>> THEN 0
    ELSE Max(Head(wards).final_combined_risk, MaxRiskOf(Tail(wards)))

\* Faulty variant: the allocation is skipped only when no ward has any risk
ActivationSkipped_ZeroOnly(wards) == MaxRiskOf(wards) <= 0

\* The activation threshold check: max_risk < LOW_THRESHOLD, with
\* LOW_THRESHOLD = settings.RISK_LOW_THRESHOLD (30 points, 3 tens)
ActivationSkipped(wards) == MaxRiskOf(wards) * 10 < RISK_LOW_THRESHOLD

\* The response of the early return: "total_allocated": {k: 0 for k in
\* fe_keys} and "ward_allocations": []
NothingDeployed(res) ==
    [k \in DOMAIN res |-> [ward_allocations |-> <<>>, total_allocated |-> 0]]

\* The latest records of the wards of a request: flood risk 0, 20 or 30,
\* heat risk 0, 20 or 90, 100,000 inhabitants
RouteWards ==
    {WardRisk(f, h, 2, d) : f \in {0, 2, 3}, h \in {0, 2, 9}, d \in DeltaPcts}

InitRoute ==
    /\ ward_risk_data \in UNION {[1..n -> RouteWards] : n \in 1..MaxOptWards}
    /\ resources \in ResourceConfigs
    /\ resource_order = DefaultOrder
    /\ use_delta \in BOOLEAN
    /\ opt_allocations = <<>>
    /\ opt_pc = "ready"
    /\ AllocIdle
    /\ RiskIdle

\* optimize_resources on the wards' latest records: the early return when
\* every ward is below the threshold, else optimize_allocation
CallOptimizeResources ==
    /\ opt_pc = "ready"
    /\ IF ActivationSkipped(ward_risk_data)
       THEN /\ opt_allocations' = NothingDeployed(resources)
            /\ ward_risk_data' = ward_risk_data
       ELSE LET result == optimize_allocation(ward_risk_data, resources,
                                               resource_order, use_delta)
            IN  /\ opt_allocations' = result.allocations
                /\ ward_risk_data' = result.wards
    /\ opt_pc' = "returned"
    /\ UNCHANGED <<resources, resource_order, use_delta, allocVars, riskVars>>

NextRoute == CallOptimizeResources

SpecRoute == InitRoute /\ [][NextRoute]_vars

\* C29: when every zone's latest final_combined_risk is below the low-risk
\* threshold (30), the optimize operation deploys nothing: total_allocated is
\* 0 for every resource type and no zone receives any unit, whatever totals
\* were requested.
C29_NothingBelowThreshold ==
    (/\ opt_pc = "returned"
     /\ \A i \in 1..Len(ward_risk_data) :
           ward_risk_data[i].final_combined_risk * 10 < RISK_LOW_THRESHOLD)
        => \A k \in DOMAIN resources :
              /\ opt_allocations[k].total_allocated = 0
              /\ \A i \in 1..Len(ward_risk_data) : OptAllocated(k, i) = 0

\* A request for wards at risk 20 (a positive need score each) with the
\* default totals: nothing is deployed.
C29_Witness ==
    /\ opt_pc = "returned"
    /\ resources = DEFAULT_RESOURCES
    /\ Len(ward_risk_data) >= 2
    /\ \A i \in 1..Len(ward_risk_data) :
          /\ ward_risk_data[i].final_combined_risk = 2
          /\ calculate_need_score(ward_risk_data[i], use_delta) > 0
    /\ \A k \in DOMAIN resources : opt_allocations[k].total_allocated = 0

----------------------------------------------------------------------------
(* final_risk.py : FinalRiskCalculator.calculate_full_risk                 *)
(* scheduler.py  : scheduled_risk_recompute                                *)
(*                                                                         *)
(* Risk values are integers in 1/RiskScale of a point (57.14 is 571400);   *)
(* an ML probability is an integer in 1/10000 (round(probability, 4)).     *)

\* settings.ML_COMPOSITE_WEIGHT and settings.ML_MODEL_WEIGHT, in hundredths
ML_COMPOSITE_WEIGHT == 60
ML_MODEL_WEIGHT == 40

\* settings.NEIGHBOR_SPILLOVER_PCT and settings.NEIGHBOR_RISK_THRESHOLD
NEIGHBOR_SPILLOVER_PCT == 5
NEIGHBOR_RISK_THRESHOLD == 80

MaxRisk == 100 * RiskScale

\* The wards table, and get_ward_adjacency(db, ward_id): the wards sharing a
\* boundary with (or within the radius of) the ward, the ward itself excluded.
\* Ward 2 has two neighbours, ward 4 has none.
Wards == {1, 2, 3, 4}

NumWards == Cardinality(Wards)

\* Faulty variant: the join lacks a.ward_id != b.ward_id and the proximity
\* fallback lacks its `if wid == ward_id: continue`, so a ward that has
\* neighbours is returned among them
get_ward_adjacency_WithSelf(w) ==
    CASE w = 1 -> {1, 2}
      [] w = 2 -> {1, 2, 3}
      [] w = 3 -> {2, 3}
      [] OTHER -> {}

get_ward_adjacency(w) ==
    CASE w = 1 -> {2}
      [] w = 2 -> {1, 3}
      [] w = 3 -> {2}
      [] OTHER -> {}

\* round(x, 2) of a value x given in 1/RiskScale: the nearest multiple of 100.
\* Python rounds the binary float; where x lies halfway between two values
\* with two decimals the float's last bit decides, so both neighbours are
\* possible results.
Round2(x) ==
    LET q == x \div 100
        r == x % 100
    IN  IF 2 * r < 100 THEN {100 * q}
        ELSE IF 2 * r > 100 THEN {100 * (q + 1)}
        ELSE {100 * q, 100 * (q + 1)}

\* Fusion (lines 62-72):
\*   round(min(100, max(0, composite_weight * event + ml_weight * probability * 100)), 2)
\* event is a multiple of 100 (the composite layer rounds it to two decimals),
\* so the weighted sum is a whole number of 1/RiskScale.
Fuse(event, probability) ==
    Round2(Min(MaxRisk, Max(0,
        (ML_COMPOSITE_WEIGHT * event + ML_MODEL_WEIGHT * 100 * probability) \div 100)))

\* A db handle: None, or a session that sees the rows `rows`
NoDb == [present |-> FALSE, rows |-> <<>>]
Db(rows) == [present |-> TRUE, rows |-> rows]

\* db.query(WardRiskScore).filter(ward_id == w).order_by(timestamp.desc()).first()
LatestScore(rows, w) ==
    LET idx == {i \in 1..Len(rows) : rows[i].ward_id = w}
    IN  IF idx = {} THEN NoRecord
        ELSE rows[CHOOSE i \in idx : \A j \in idx : j <= i]

\* Faulty variant: any stored record of the neighbour counts
NeighborIsHighRisk_AnyRecord(neighbor_score) == neighbor_score # NoRecord

\* neighbor_score and neighbor_score.final_combined_risk and
\*     neighbor_score.final_combined_risk >= settings.NEIGHBOR_RISK_THRESHOLD
NeighborIsHighRisk(neighbor_score) ==
    /\ neighbor_score # NoRecord
    /\ neighbor_score.final_combined_risk # 0
    /\ neighbor_score.final_combined_risk >= NEIGHBOR_RISK_THRESHOLD * RiskScale

\* spillover_sources (lines 78-88): empty when db is None
SpilloverSources(w, db) ==
    IF ~db.present THEN {}
    ELSE {n \in get_ward_adjacency(w) : NeighborIsHighRisk(LatestScore(db.rows, n))}

\* Faulty variant: the cap at 100 is missing
ApplySpillover_NoCap(final, sources) ==
    IF sources # {}
    THEN (final * (100 + NEIGHBOR_SPILLOVER_PCT)) \div 100
    ELSE final

\* Faulty variant: the boost is applied once per triggering neighbour
RECURSIVE ApplySpillover_PerSource(_, _)
ApplySpillover_PerSource(final, sources) ==
    IF sources = {} THEN final
    ELSE LET n == CHOOSE x \in sources : TRUE
         IN  Min(MaxRisk,
                 (ApplySpillover_PerSource(final, sources \ {n})
                     * (100 + NEIGHBOR_SPILLOVER_PCT)) \div 100)

\* Lines 90-93: if spillover_sources: final = min(100, final * (1 + spillover_pct)).
\* final is a multiple of 100, so the product is a whole number of 1/RiskScale.
ApplySpillover(final, sources) ==
    IF sources # {}
    THEN Min(MaxRisk, (final * (100 + NEIGHBOR_SPILLOVER_PCT)) \div 100)
    ELSE final

\* round(x / d, 0) for d > 0, as the set of results Python's round can give:
\* the nearest integer, and both neighbours where x / d lies exactly halfway
\* (the binary float's last bit decides there).
RoundDiv(x, d) ==
    LET q == x \div d
        r == x % d
    IN  IF 2 * r < d THEN {q}
        ELSE IF 2 * r > d THEN {q + 1}
        ELSE {q, q + 1}

----------------------------------------------------------------------------
(* ml/model.py : MLRiskModel                                               *)
(*                                                                         *)
(* Units: a probability or confidence is an integer in 1/10000; rainfall   *)
(* in mm, elevation in m, temperature anomaly in whole degrees; drainage   *)
(* and low_lying indices in hundredths; elderly_ratio in fiftieths (5 is   *)
(* 0.10); population_density in units of 3000 per km2 (5 is 15000).        *)

\* extract_features: the two weather features are 0 without weather data
RainfallFeature(inp) == IF inp.weather_present THEN inp.rainfall_mm ELSE 0
CumulativeFeature(inp) == IF inp.weather_present THEN inp.cumulative_48h ELSE 0

\* _calculate_confidence: min(1.0, non_default / len(features)), rounded to
\* four decimals by the caller.  Of the 11 features only the two rainfall
\* features can be 0 (every other one falls back to a non-zero default).
calculate_confidence(inp) ==
    LET non_default == 9 + (IF RainfallFeature(inp) # 0 THEN 1 ELSE 0)
                         + (IF CumulativeFeature(inp) # 0 THEN 1 ELSE 0)
    IN  RoundDiv(Min(11, non_default) * 10000, 11)

\* _fallback_flood_probability(features)
fallback_flood_probability(inp) ==
    LET rainfall   == RainfallFeature(inp)
        cumulative == CumulativeFeature(inp)
        p_rain == IF rainfall > 50 THEN 4000
                  ELSE IF rainfall > 20 THEN 2000
                  ELSE IF rainfall > 5 THEN 500 ELSE 0
        p_cum  == IF cumulative > 150 THEN 2500
                  ELSE IF cumulative > 75 THEN 1200
                  ELSE IF cumulative > 25 THEN 500 ELSE 0
        p_elev == Min(1000, Max(0, 600 - inp.elevation_m) * 10)
        p_drain == (100 - inp.drainage) * 10
        p_low  == inp.low_lying * 10
    IN  Max(0, Min(10000, p_rain + p_cum + p_elev + p_drain + p_low))

\* _fallback_heat_probability(features):
\*   0.15 + min(0.3, elderly / 0.20 * 0.15) + min(0.2, density / 30000 * 0.1)
fallback_heat_probability(inp) ==
    Max(0, Min(10000,
        1500 + Min(3000, inp.elderly * 150) + Min(2000, inp.density * 100)))

\* The attenuation factor of predict_heat, in hundredths
HeatAttenuation(inp) ==
    IF ~(inp.weather_present /\ inp.has_temp) THEN 25
    ELSE IF inp.temp_anomaly >= 8 THEN 100
    ELSE IF inp.temp_anomaly >= 6 THEN 75
    ELSE IF inp.temp_anomaly >= 4 THEN 45
    ELSE IF inp.temp_anomaly >= 2 THEN 25
    ELSE IF inp.temp_anomaly >= 0 THEN 12
    ELSE 5

\* predict_flood(ward, weather_data): {"probability", "confidence"}.
\* inp.flood_model: self.flood_model is not None; inp.flood_proba: what
\* predict_proba returns for the ward then.
predict_flood(inp) ==
    IF inp.flood_model
    THEN {[probability |-> inp.flood_proba, confidence |-> c] :
              c \in calculate_confidence(inp)}
    ELSE {[probability |-> fallback_flood_probability(inp), confidence |-> 5000]}

\* predict_heat(ward, weather_data): probability = raw_probability * attenuation
predict_heat(inp) ==
    LET raw  == IF inp.heat_model THEN inp.heat_proba
                ELSE fallback_heat_probability(inp)
        conf == IF inp.heat_model THEN calculate_confidence(inp) ELSE {5000}
    IN  {[probability |-> p, confidence |-> c] :
            p \in RoundDiv(raw * HeatAttenuation(inp), 100), c \in conf}

----------------------------------------------------------------------------
(* composite.py : calculate_risk_delta                                     *)

DELTA_SURGE_THRESHOLD == 20
DELTA_CRITICAL_THRESHOLD == 40

\* delta_pct before rounding is DeltaNum / DeltaDen percent:
\*   (delta / baseline_risk * 100) if baseline_risk > 0 else 0
\* event_risk and baseline_risk are given in 1/RiskScale and are multiples of
\* 100 (both are rounded to two decimals where they are computed); they are
\* taken in hundredths of a point here.
DeltaNum_Unguarded(event_risk, baseline_risk) ==
    ((event_risk - baseline_risk) \div 100) * 100

DeltaNum(event_risk, baseline_risk) ==
    IF baseline_risk > 0 THEN ((event_risk - baseline_risk) \div 100) * 100 ELSE 0

DeltaDen(baseline_risk) ==
    IF baseline_risk > 0 THEN baseline_risk \div 100 ELSE 1

\* Faulty variant: the two alerts are exclusive tiers (surge only below the
\* critical threshold)
calculate_risk_delta_Banded(event_risk, baseline_risk) ==
    LET num == DeltaNum(event_risk, baseline_risk)
        den == DeltaDen(baseline_risk)
    IN  {[delta_pct      |-> pct,
          surge_alert    |-> /\ num >= DELTA_SURGE_THRESHOLD * den
                             /\ num < DELTA_CRITICAL_THRESHOLD * den,
          critical_alert |-> num >= DELTA_CRITICAL_THRESHOLD * den] :
            pct \in RoundDiv(num * 100, den)}

\* calculate_risk_delta(event_risk, baseline_risk): delta_pct is returned
\* rounded to two decimals (here in hundredths of a percent); the two alerts
\* compare the unrounded delta_pct with the thresholds.
calculate_risk_delta(event_risk, baseline_risk) ==
    LET num == DeltaNum(event_risk, baseline_risk)
        den == DeltaDen(baseline_risk)
    IN  {[delta_pct      |-> pct,
          surge_alert    |-> num >= DELTA_SURGE_THRESHOLD * den,
          critical_alert |-> num >= DELTA_CRITICAL_THRESHOLD * den] :
            pct \in RoundDiv(num * 100, den)}

----------------------------------------------------------------------------
(* final_risk.py : confidence and uncertainty (lines 102-112)              *)

\* ward.get_data_completeness(): filled / len(fields), 9 fields
CompletenessFields == 9

\* weather_available = 1.0 if weather_data else 0.0, in units of 1
WeatherAvailable_Always(inp) == 1

WeatherAvailable(inp) == IF inp.weather_present THEN 1 ELSE 0

\* confidence_score = round(0.40 * data_completeness + 0.30 * ml_confidence
\*                          + 0.30 * weather_available, 4), in 1/10000, with
\*   ml_confidence = (ml_flood["confidence"] + ml_heat["confidence"]) / 2.
\* Over the common denominator 180:
\*   0.40 * filled / 9 * 10000        = 80000 * filled / 180
\*   0.30 * (cf + ch) / 2             = 27 * (cf + ch) / 180
\*   0.30 * weather_available * 10000 = 540000 * weather_available / 180
confidence_score(inp, ml_flood, ml_heat) ==
    RoundDiv(80000 * inp.filled_fields
                + 27 * (ml_flood.confidence + ml_heat.confidence)
                + 540000 * WeatherAvailable(inp),
             20 * CompletenessFields)

\* uncertainty_score = round(1.0 - confidence_score, 4)
uncertainty_score(confidence) == 10000 - confidence

\* The dict calculate_full_risk returns (the fields the model uses):
\*   final_combined = max(final_flood, final_heat)
\*   "final_combined_risk": round(final_combined, 2)
\*   risk_category = get_risk_category(final_combined)
\*   surge_alert = flood_delta["surge_alert"] or heat_delta["surge_alert"]
\*   critical_alert = flood_delta["critical_alert"] or heat_delta["critical_alert"]
RiskData(w, inp, sources, ml, final, combined_rounded, delta, confidence) ==
    [ward_id                    |-> w,
     flood_baseline_risk        |-> inp.flood_baseline,
     heat_baseline_risk         |-> inp.heat_baseline,
     flood_event_risk           |-> inp.flood_event,
     heat_event_risk            |-> inp.heat_event,
     flood_risk_delta_pct       |-> delta[1].delta_pct,
     heat_risk_delta_pct        |-> delta[2].delta_pct,
     ml_flood_probability       |-> ml[1].probability,
     ml_heat_probability        |-> ml[2].probability,
     final_flood_risk           |-> final[1],
     final_heat_risk            |-> final[2],
     final_combined_risk        |-> combined_rounded,
     confidence_score           |-> confidence,
     uncertainty_score          |-> uncertainty_score(confidence),
     risk_category              |-> get_risk_category(Max(final[1], final[2])),
     surge_alert                |-> delta[1].surge_alert \/ delta[2].surge_alert,
     critical_alert             |-> delta[1].critical_alert \/ delta[2].critical_alert,
     neighbor_spillover_applied |-> sources # {},
     spillover_source_wards     |-> sources]

\* The results of calculate_full_risk for one pair ml of predictions
FullRiskGiven(w, inp, sources, ml) ==
    LET finals == {<<ApplySpillover(ff, sources), ApplySpillover(fh, sources)>> :
                       ff \in Fuse(inp.flood_event, ml[1].probability),
                       fh \in Fuse(inp.heat_event, ml[2].probability)}
        deltas == calculate_risk_delta(inp.flood_event, inp.flood_baseline)
                      \X calculate_risk_delta(inp.heat_event, inp.heat_baseline)
    IN  UNION {{RiskData(w, inp, sources, ml, f, fc, d, c) :
                    fc \in Round2(Max(f[1], f[2])),
                    d \in deltas,
                    c \in confidence_score(inp, ml[1], ml[2])} : f \in finals}

\* calculate_full_risk(ward, all_wards, weather_data, db), given what the
\* composite layer computes for the ward (baselines and event risks) and the
\* features and model outputs the ML layer works on.  A set: one result, or
\* several where a round() hits a tie.
calculate_full_risk(w, inp, db) ==
    LET sources == SpilloverSources(w, db)
    IN  UNION {FullRiskGiven(w, inp, sources, ml) :
                   ml \in predict_flood(inp) \X predict_heat(inp)}

\* --- inputs ---

\* The ward attributes and the weather of a ward with complete data, trained
\* models loaded
CompleteWard ==
    [weather_present |-> TRUE, rainfall_mm |-> 30, cumulative_48h |-> 80,
     has_temp |-> TRUE, temp_anomaly |-> 2,
     elevation_m |-> 560, drainage |-> 50, low_lying |-> 50,
     elderly |-> 5, density |-> 5, filled_fields |-> CompletenessFields,
     flood_model |-> TRUE, heat_model |-> TRUE,
     flood_proba |-> 5714, heat_proba |-> 4000,
     flood_baseline |-> 400000, heat_baseline |-> 200000,
     flood_event |-> 571400, heat_event |-> 200000]

\* What the composite layer and the ML model work on for a ward in a cycle:
\*   - flood 57.14 with a low heat risk (ML probabilities 0.5714 and 0.1),
\*   - heat 100 with a low flood risk (ML probabilities 0.25 and 1.0).
RiskInputs ==
    { CompleteWard,
      [CompleteWard EXCEPT !.temp_anomaly = 12,
                           !.flood_proba = 2500, !.heat_proba = 10000,
                           !.flood_baseline = 300000, !.heat_baseline = 500000,
                           !.flood_event = 300000, !.heat_event = 1000000] }

\* --- the cycle ---

Init ==
    /\ RiskIdle
    /\ AllocIdle
    /\ OptIdle

\* The order in which db.query(Ward).all() returns the wards (the query has
\* no ORDER BY): by ward id, or reversed
IdentityOrder == [i \in 1..NumWards |-> i]

\* The wards the weather service has data for: weather_results["wards"]
AllWeather == Wards

\* scheduled_risk_recompute up to its loop: db = SessionLocal();
\* wards = db.query(Ward).all(); weather is fetched
StartCycleWith(orders, weathers) ==
    /\ pos = 0
    /\ cycles < MaxCycles
    /\ pos' = 1
    /\ pending' = <<>>
    /\ ward_order' \in orders
    /\ weather_data' \in weathers
    /\ failed' = {}
    /\ UNCHANGED <<table, cycles, scratch, risk_args, cache, redis_available,
                   flood_event_w, interleaved, allocVars, optVars>>

StartCycle == StartCycleWith({IdentityOrder}, {AllWeather})

\* Faulty variant: the session flushes the added rows before each query
\* (autoflush=True), so a query also sees the rows of the running cycle
SessionRows_Autoflush(committed, added) == committed \o added

\* The rows a query of the cycle's session sees, given the committed rows and
\* the rows added to the session: SessionLocal is made with autoflush=False
\* and the cycle never flushes, so the added rows are not among them
SessionRows(committed, added) == committed

\* cache_risk_scores(ward_id, scores): set_cache stores the dict under the
\* ward's key when Redis answers, and does nothing otherwise
cache_risk_scores(risk_data) ==
    IF redis_available
    THEN {r \in cache : r.ward_id # risk_data.ward_id} \cup {risk_data}
    ELSE cache

\* One pass of the loop body (lines 52-65) for a ward whose inputs are drawn
\* from `inputs`: calculate_full_risk(ward, wards, ward_weather, db),
\* db.add(risk_score) and cache_risk_scores(ward_id, risk_data).  The session
\* reads through the session (db/database.py: autoflush=False).
ComputeWardWith(inputs) ==
    /\ pos \in 1..Len(ward_order)
    /\ \E inp \in inputs :
         \E risk_data \in calculate_full_risk(ward_order[pos], inp,
                                              Db(SessionRows(table, pending))) :
            /\ pending' = Append(pending, risk_data)
            /\ cache' = cache_risk_scores(risk_data)
    /\ pos' = pos + 1
    /\ UNCHANGED <<table, cycles, scratch, risk_args, ward_order, weather_data,
                   failed, redis_available, flood_event_w, interleaved,
                   allocVars, optVars>>

ComputeWard == ComputeWardWith(RiskInputs)

\* db.commit() (line 69): the session's rows are inserted, in the order added
CommitCycle ==
    /\ pos = Len(ward_order) + 1
    /\ pos > 0   \* a cycle runs
    /\ table' = table \o pending
    /\ pending' = <<>>
    /\ pos' = 0
    /\ cycles' = cycles + 1
    /\ interleaved' = FALSE
    /\ UNCHANGED <<scratch, risk_args, ward_order, weather_data, failed, cache,
                   redis_available, flood_event_w, allocVars, optVars>>

\* calculate_full_risk(ward, wards, weather) called without db (db=None, the
\* parameter's default); the result is not stored
ScratchCall ==
    /\ pos = 0
    /\ \E w \in Wards : \E inp \in RiskInputs :
         scratch' \in calculate_full_risk(w, inp, NoDb)
    /\ UNCHANGED <<table, pending, pos, cycles, risk_args, ward_order,
                   weather_data, failed, cache, redis_available, flood_event_w,
                   interleaved, allocVars, optVars>>

Next ==
    \/ StartCycle
    \/ ComputeWard
    \/ CommitCycle
    \/ ScratchCall

Spec == Init /\ [][Next]_vars

----------------------------------------------------------------------------
(* Claims about calculate_full_risk                                        *)

\* Every record calculate_full_risk has produced and that still exists
AllRecords ==
    {table[i] : i \in 1..Len(table)} \cup {pending[i] : i \in 1..Len(pending)}
        \cup ({scratch} \ {NoRecord})

InRange(x) == 0 <= x /\ x <= MaxRisk

\* C7: every record produced by calculate_full_risk has final_flood_risk,
\* final_heat_risk and final_combined_risk within [0, 100], with and without
\* spillover.
C7_RiskWithinRange ==
    \A r \in AllRecords :
        /\ InRange(r.final_flood_risk)
        /\ InRange(r.final_heat_risk)
        /\ InRange(r.final_combined_risk)

\* A stored record whose fused heat risk of 100 met spillover (the cap
\* decides), next to a stored record without spillover.
C7_Witness ==
    /\ \E r \in AllRecords :
          /\ r.neighbor_spillover_applied
          /\ r.heat_event_risk = MaxRisk
          /\ r.final_heat_risk = MaxRisk
    /\ \E r \in AllRecords : ~r.neighbor_spillover_applied

\* C8: classifying a record's stored final_combined_risk with
\* get_risk_category gives the risk_category stored on the record, also for
\* records to which spillover was applied.
C8_CategoryRoundTrip ==
    \A r \in AllRecords :
        get_risk_category(r.final_combined_risk) = r.risk_category

\* The record a step has just produced, if any
Produced ==
    IF Len(pending') = Len(pending) + 1 THEN {pending'[Len(pending')]}
    ELSE IF scratch' # scratch THEN {scratch'}
    ELSE {}

\* C9: calculate_full_risk applies spillover to a zone only if, when it runs,
\* at least one adjacent zone has a stored record whose final_combined_risk is
\* >= the neighbour risk threshold (so never for a zone without neighbours,
\* without a record store, or whose neighbours have no stored record).
C9_SpilloverOnlyFromStoredNeighbor ==
    [][\A r \in Produced :
          r.neighbor_spillover_applied =>
              /\ Len(pending') = Len(pending) + 1
              /\ \E i \in 1..Len(table) :
                    /\ table[i].ward_id \in get_ward_adjacency(r.ward_id)
                    /\ table[i].final_combined_risk >= NEIGHBOR_RISK_THRESHOLD * RiskScale]_vars

\* A cycle in which ward 2 received spillover from both neighbours while the
\* ward without neighbours received none, although every ward's stored risk
\* is at the threshold or above.
C9_Witness ==
    /\ pos = NumWards + 1
    /\ \A w \in Wards : NeighborIsHighRisk(LatestScore(table, w))
    /\ pending[2].spillover_source_wards = {1, 3}
    /\ ~pending[4].neighbor_spillover_applied

\* C28: in every record produced by calculate_full_risk,
\* neighbor_spillover_applied is true exactly when spillover_source_wards is
\* non-empty, and every listed source is an adjacent zone, not the zone
\* itself, whose latest stored record at the time of the call has a
\* final_combined_risk at the threshold or above.
C28_FlagMatchesSources ==
    [][\A r \in Produced :
          /\ r.neighbor_spillover_applied <=> (r.spillover_source_wards # {})
          /\ \A n \in r.spillover_source_wards :
                /\ n \in get_ward_adjacency(r.ward_id)
                /\ n # r.ward_id
                /\ LatestScore(table, n) # NoRecord
                /\ LatestScore(table, n).final_combined_risk
                       >= NEIGHBOR_RISK_THRESHOLD * RiskScale]_vars

\* A cycle in which ward 1, whose own stored risk is at the threshold, got no
\* spillover (its only neighbour is below), while ward 2 got spillover with
\* ward 1 as the only source, its other neighbour being stored below the
\* threshold.
C28_Witness ==
    /\ Len(pending) >= 2
    /\ pending[1].ward_id = 1
    /\ NeighborIsHighRisk(LatestScore(table, 1))
    /\ LatestScore(table, 3) # NoRecord
    /\ ~NeighborIsHighRisk(LatestScore(table, 3))
    /\ ~pending[1].neighbor_spillover_applied
    /\ pending[1].spillover_source_wards = {}
    /\ pending[2].ward_id = 2
    /\ pending[2].neighbor_spillover_applied
    /\ pending[2].spillover_source_wards = {1}

\* C10: spillover multiplies a zone's fused flood and heat risk by
\* (1 + boost_pct) at most once, however many neighbours trigger it: the
\* stored risk is at least the fused risk, at most the fused risk times
\* (1 + boost_pct), and at most 100.
BoostedAtMostOnce(final, fused) ==
    /\ fused <= final
    /\ final * 100 <= fused * (100 + NEIGHBOR_SPILLOVER_PCT)
    /\ final <= MaxRisk

C10_SpilloverAtMostOnce ==
    \A r \in AllRecords :
        /\ \E ff \in Fuse(r.flood_event_risk, r.ml_flood_probability) :
              BoostedAtMostOnce(r.final_flood_risk, ff)
        /\ \E fh \in Fuse(r.heat_event_risk, r.ml_heat_probability) :
              BoostedAtMostOnce(r.final_heat_risk, fh)

\* A stored record with two triggering neighbours whose flood risk is the
\* fused risk boosted exactly once.
C10_Witness ==
    \E i \in 1..Len(table) :
        /\ table[i].spillover_source_wards = {1, 3}
        /\ table[i].final_flood_risk * 100
              = 571400 * (100 + NEIGHBOR_SPILLOVER_PCT)

----------------------------------------------------------------------------
(* Direct calls of calculate_full_risk                                     *)

\* (event risk, baseline risk) pairs of a hazard, in 1/RiskScale:
\* 85 against 40, 50 against 48, 60.01 against 50.01, 20 against 40,
\* 30 against 0, 0 against 0
EventBaselinePairs ==
    { <<850000, 400000>>, <<500000, 480000>>, <<600100, 500100>>,
      <<200000, 400000>>, <<300000, 0>>, <<0, 0>> }

HeatEventBaselinePairs == { <<200000, 200000>>, <<700000, 500000>>, <<500000, 0>> }

\* Number of the 9 fields get_data_completeness finds filled
FilledFields == {0, 5, CompletenessFields}

CalcInputs ==
    {[CompleteWard EXCEPT !.weather_present = wp,
                          !.rainfall_mm = rain,
                          !.filled_fields = k,
                          !.flood_model = loaded, !.heat_model = loaded,
                          !.flood_event = fp[1], !.flood_baseline = fp[2],
                          !.heat_event = hp[1], !.heat_baseline = hp[2]] :
        wp \in BOOLEAN, rain \in {0, 30}, k \in FilledFields,
        loaded \in BOOLEAN, fp \in EventBaselinePairs,
        hp \in HeatEventBaselinePairs}

InitCalc ==
    /\ table = <<>>
    /\ pending = <<>>
    /\ pos = 0
    /\ cycles = 0
    /\ scratch = NoRecord
    /\ risk_args \in [ward_id : {1}, inp : CalcInputs]
    /\ ward_order = <<>>
    /\ weather_data = {}
    /\ failed = {}
    /\ cache = {}
    /\ redis_available = TRUE
    /\ flood_event_w = FLOOD_EVENT_WEIGHTS
    /\ interleaved = FALSE
    /\ AllocIdle
    /\ OptIdle

\* calculate_full_risk(ward, wards, weather) on the arguments risk_args.  The
\* function has no raise statement and every expression of it is defined on
\* these arguments, so the call returns.
CallFullRisk ==
    /\ risk_args # NoRecord
    /\ scratch = NoRecord
    /\ scratch' \in calculate_full_risk(risk_args.ward_id, risk_args.inp, NoDb)
    /\ UNCHANGED <<table, pending, pos, cycles, risk_args, ward_order,
                   weather_data, failed, cache, redis_available, flood_event_w,
                   interleaved, allocVars, optVars>>

NextCalc == CallFullRisk

SpecCalc == InitCalc /\ [][NextCalc]_vars

\* The direct call has returned
Returned == risk_args # NoRecord /\ scratch # NoRecord

\* C14: with no trained model loaded, the fused flood and heat risk of the
\* zone equal the composite event risk alone, and the computation returns.
C14_NoModelCompositeOnly ==
    (risk_args # NoRecord /\ ~risk_args.inp.flood_model /\ scratch # NoRecord)
        => /\ scratch.final_flood_risk = scratch.flood_event_risk
           /\ scratch.final_heat_risk = scratch.heat_event_risk

\* C15: the record's confidence_score and uncertainty_score lie within [0, 1],
\* uncertainty_score = 1 - confidence_score, confidence_score is
\* 0.40 * data completeness + 0.30 * ML confidence + 0.30 * weather-present
\* (rounded to four decimals), and without weather it is at most 0.70.
C15_Confidence ==
    Returned =>
        /\ 0 <= scratch.confidence_score /\ scratch.confidence_score <= 10000
        /\ 0 <= scratch.uncertainty_score /\ scratch.uncertainty_score <= 10000
        /\ scratch.uncertainty_score = 10000 - scratch.confidence_score
        /\ \E mf \in predict_flood(risk_args.inp), mh \in predict_heat(risk_args.inp) :
              LET exact == 4000 * 20 * risk_args.inp.filled_fields
                             + 3 * 9 * (mf.confidence + mh.confidence)
                             + 3000 * 180 * (IF risk_args.inp.weather_present THEN 1 ELSE 0)
                  diff  == 180 * scratch.confidence_score - exact
              IN  -90 <= diff /\ diff <= 90
        /\ ~risk_args.inp.weather_present => scratch.confidence_score <= 7000

\* A ward with every field filled and trained models, but no weather: its
\* confidence is 0.40 + 0.30 * 0.8182 = 0.6455.
C15_Witness ==
    /\ Returned
    /\ ~risk_args.inp.weather_present
    /\ risk_args.inp.filled_fields = CompletenessFields
    /\ risk_args.inp.flood_model
    /\ scratch.confidence_score = 6455
    /\ scratch.uncertainty_score = 3545

\* C16: surge_alert is true exactly when the reported flood or heat delta_pct
\* is >= the surge threshold, critical_alert exactly when one is >= the
\* critical threshold.
C16_AlertsMatchReportedDelta ==
    Returned =>
        /\ scratch.surge_alert <=>
              \/ scratch.flood_risk_delta_pct >= DELTA_SURGE_THRESHOLD * 100
              \/ scratch.heat_risk_delta_pct >= DELTA_SURGE_THRESHOLD * 100
        /\ scratch.critical_alert <=>
              \/ scratch.flood_risk_delta_pct >= DELTA_CRITICAL_THRESHOLD * 100
              \/ scratch.heat_risk_delta_pct >= DELTA_CRITICAL_THRESHOLD * 100

\* C17: with baseline_risk = 0, calculate_risk_delta returns delta_pct = 0 and
\* neither alert, for every event_risk, and the call returns.
C17_ZeroBaseline ==
    (risk_args # NoRecord /\ risk_args.inp.flood_baseline = 0)
        => /\ \A d \in calculate_risk_delta(risk_args.inp.flood_event, 0) :
                 d.delta_pct = 0 /\ ~d.surge_alert /\ ~d.critical_alert
           /\ scratch # NoRecord =>
                 /\ scratch.flood_risk_delta_pct = 0
                 /\ risk_args.inp.heat_baseline = 0 =>
                       ~scratch.surge_alert /\ ~scratch.critical_alert

\* A returned call with flood event risk 30 against baseline 0, and heat event
\* risk 50 against baseline 0: no delta, no alert.
C17_Witness ==
    /\ Returned
    /\ risk_args.inp.flood_baseline = 0
    /\ risk_args.inp.flood_event = 300000
    /\ risk_args.inp.heat_baseline = 0
    /\ risk_args.inp.heat_event = 500000
    /\ scratch.flood_risk_delta_pct = 0
    /\ scratch.heat_risk_delta_pct = 0
    /\ ~scratch.surge_alert

\* C30: with the critical delta threshold at or above the surge delta
\* threshold, critical_alert implies surge_alert in every per-hazard delta
\* result and in every record produced by calculate_full_risk.
C30_CriticalImpliesSurge ==
    (risk_args # NoRecord /\ DELTA_CRITICAL_THRESHOLD >= DELTA_SURGE_THRESHOLD)
        => /\ \A d \in calculate_risk_delta(risk_args.inp.flood_event,
                                            risk_args.inp.flood_baseline)
                       \cup calculate_risk_delta(risk_args.inp.heat_event,
                                                 risk_args.inp.heat_baseline) :
                 d.critical_alert => d.surge_alert
           /\ scratch # NoRecord => (scratch.critical_alert => scratch.surge_alert)

\* A record whose critical alert comes from the heat delta alone (70 against
\* 50, exactly 40 %), the flood delta (50 against 48) raising no alert: both
\* alerts of the record are set.
C30_Witness ==
    /\ Returned
    /\ risk_args.inp.flood_event = 500000
    /\ risk_args.inp.flood_baseline = 480000
    /\ risk_args.inp.heat_event = 700000
    /\ risk_args.inp.heat_baseline = 500000
    /\ scratch.heat_risk_delta_pct = DELTA_CRITICAL_THRESHOLD * 100
    /\ scratch.critical_alert
    /\ scratch.surge_alert

----------------------------------------------------------------------------
(* The cycle with its failure paths: wards in any order, a ward without    *)
(* weather, a pass of the loop that raises, a commit that raises, Redis    *)
(* up or down                                                              *)

ReverseOrder == [i \in 1..NumWards |-> NumWards + 1 - i]

Orders == {IdentityOrder, ReverseOrder}

\* weather_results["wards"] has an entry for every ward, or for every ward
\* but ward 1
WeatherSets == {AllWeather, AllWeather \ {1}}

\* A ward under a heatwave: heat event risk 100, ML heat probability 1.0
HeatwaveInput ==
    [CompleteWard EXCEPT !.temp_anomaly = 12,
                         !.flood_proba = 2500, !.heat_proba = 10000,
                         !.flood_baseline = 300000, !.heat_baseline = 500000,
                         !.flood_event = 300000, !.heat_event = 1000000]

\* The same ward when weather_data.get(ward_id) is None: the composite layer
\* has no rainfall or anomaly score, so the event risks come from the
\* baseline (and the heat island score) alone
NoWeatherInput ==
    [HeatwaveInput EXCEPT !.weather_present = FALSE,
                          !.flood_event = 60000, !.heat_event = 225000]

\* What calculate_full_risk works on for ward w in the running cycle
CycleInputs(w) ==
    IF w \in weather_data THEN {HeatwaveInput} ELSE {NoWeatherInput}

InitCycle ==
    /\ table = <<>>
    /\ pending = <<>>
    /\ pos = 0
    /\ cycles = 0
    /\ scratch = NoRecord
    /\ risk_args = NoRecord
    /\ ward_order = <<>>
    /\ weather_data = {}
    /\ failed = {}
    /\ cache = {}
    /\ redis_available \in BOOLEAN
    /\ flood_event_w = FLOOD_EVENT_WEIGHTS
    /\ interleaved = FALSE
    /\ AllocIdle
    /\ OptIdle

StartCycleAny == StartCycleWith(Orders, WeatherSets)

ComputeWardCycle == ComputeWardWith(CycleInputs(ward_order[pos]))

\* Faulty variant: the loop body has no try/except, so the exception reaches
\* the handler of the cycle (lines 72-74): rollback, no commit
FailWard_AbortsCycle ==
    /\ pos \in 1..Len(ward_order)
    /\ failed' = failed \cup {ward_order[pos]}
    /\ pending' = <<>>
    /\ pos' = 0
    /\ cycles' = cycles + 1
    /\ interleaved' = FALSE
    /\ UNCHANGED <<table, scratch, risk_args, ward_order, weather_data, cache,
                   redis_available, flood_event_w, allocVars, optVars>>

\* A pass of the loop body that raises (lines 66-67): the exception is logged
\* and the loop goes on with the next ward; nothing was added or cached
FailWard ==
    /\ pos \in 1..Len(ward_order)
    /\ failed' = failed \cup {ward_order[pos]}
    /\ pos' = pos + 1
    /\ UNCHANGED <<table, pending, cycles, scratch, risk_args, ward_order,
                   weather_data, cache, redis_available, flood_event_w,
                   interleaved,
                   allocVars, optVars>>

\* db.commit() raises (lines 72-76): db.rollback() discards the added rows
FailCommit ==
    /\ pos = Len(ward_order) + 1
    /\ pos > 0
    /\ pending' = <<>>
    /\ pos' = 0
    /\ cycles' = cycles + 1
    /\ interleaved' = FALSE
    /\ UNCHANGED <<table, scratch, risk_args, ward_order, weather_data, failed,
                   cache, redis_available, flood_event_w, allocVars, optVars>>

NextCycle ==
    \/ StartCycleAny
    \/ ComputeWardCycle
    \/ FailWard
    \/ CommitCycle
    \/ FailCommit

SpecCycle == InitCycle /\ [][NextCycle]_vars

----------------------------------------------------------------------------
(* Claims about the cycle                                                  *)

Rows(rows) == {rows[i] : i \in 1..Len(rows)}

WardsOf(rows) == {rows[i].ward_id : i \in 1..Len(rows)}

\* C11: during a cycle every record produced so far is what
\* calculate_full_risk gives for its ward on the rows committed before the
\* cycle, whatever wards were processed before it in the cycle: its
\* spillover sources are neighbours whose latest committed record is at the
\* threshold or above, never a ward known only from the running cycle.
C11_SpilloverFromCommittedOnly ==
    \A r \in Rows(pending) :
        /\ r \in calculate_full_risk(r.ward_id, CHOOSE inp \in CycleInputs(r.ward_id) : TRUE,
                                     Db(table))
        /\ r.spillover_source_wards \subseteq
              {n \in get_ward_adjacency(r.ward_id) :
                  NeighborIsHighRisk(LatestScore(table, n))}

\* Both orders meet the case: a ward is processed after a neighbour whose new
\* record of the same cycle is critical, while the committed record of that
\* neighbour is not (here: there is none), and it gets no spillover from it.
C11_Witness ==
    /\ pos = Len(ward_order) + 1
    /\ ward_order = ReverseOrder
    /\ \E i, j \in 1..Len(pending) :
          /\ i < j
          /\ pending[i].ward_id \in get_ward_adjacency(pending[j].ward_id)
          /\ NeighborIsHighRisk(pending[i])
          /\ ~NeighborIsHighRisk(LatestScore(table, pending[i].ward_id))
          /\ pending[i].ward_id \notin pending[j].spillover_source_wards

\* C12: risk data of a cycle is visible to readers only from the cycle's
\* commit on: when no cycle runs, every record in the risk cache is a
\* committed row of the table (a cycle that ended without commit has left
\* nothing behind).
C12_NothingVisibleWithoutCommit ==
    pos = 0 => cache \subseteq Rows(table)

----------------------------------------------------------------------------
(* The cycle next to the admin weight update (api/routes.py) and the       *)
(* daily cleanup job (jobs/scheduler.py)                                   *)

\* The factor scores of calculate_flood_event_risk for the heatwave ward, in
\* 1/10000: rainfall 30 mm gives 0.3 + (30 - 20) / 30 * 0.3 = 0.4, 80 mm in
\* 48 h give 0.3 + (80 - 50) / 100 * 0.4 = 0.42, and baseline_vulnerability is
\* flood_baseline / 100 = 0.3
FloodScores ==
    [forecast_rainfall_intensity |-> 4000,
     cumulative_rain_48h         |-> 4200,
     baseline_vulnerability      |-> 3000]

\* calculate_flood_event_risk: raw = sum of weight * score over the three
\* factors, event_risk = round(min(100, max(0, raw * 100)), 2).  A weight in
\* hundredths times a score in 1/10000 is a risk value in 1/RiskScale.
calculate_flood_event_risk(w, scores) ==
    Round2(Min(MaxRisk, Max(0,
        w.forecast_rainfall_intensity * scores.forecast_rainfall_intensity
          + w.cumulative_rain_48h * scores.cumulative_rain_48h
          + w.baseline_vulnerability * scores.baseline_vulnerability)))

\* What calculate_full_risk works on under the weights in force
WeightedInputs ==
    {[HeatwaveInput EXCEPT !.flood_event = e] :
        e \in calculate_flood_event_risk(flood_event_w, FloodScores)}

\* The "flood_event" entry of an update request: a full dict whose weights
\* sum to 1, or one weight alone
WeightRequests ==
    { [forecast_rainfall_intensity |-> 50, cumulative_rain_48h |-> 30,
       baseline_vulnerability |-> 20],
      [forecast_rainfall_intensity |-> 80] }

\* dict.update(other): the keys of other replace, the other keys stay
DictUpdate(d, other) ==
    [k \in DOMAIN d |-> IF k \in DOMAIN other THEN other[k] ELSE d[k]]

\* update_weights: settings.FLOOD_EVENT_WEIGHTS.update(request["flood_event"]).
\* CompositeRiskCalculator holds the same dict object, so the next
\* calculation uses the new weights.  The handler runs on the event loop,
\* hence not while the loop over the wards runs.
UpdateWeights ==
    /\ pos \in {0, 1}
    /\ \E request \in WeightRequests :
          flood_event_w' = DictUpdate(flood_event_w, request)
    /\ UNCHANGED <<table, pending, pos, cycles, scratch, risk_args, ward_order,
                   weather_data, failed, cache, redis_available, interleaved,
                   allocVars, optVars>>

ComputeWardWeighted == ComputeWardWith(WeightedInputs)

\* Faulty variant: the job runs in a worker thread of its own, hence at any
\* point of a running cycle
Cleanup_InThread ==
    /\ \E k \in 1..Len(table) :
          table' = SubSeq(table, k + 1, Len(table))
    /\ interleaved' = (interleaved \/ pos >= 1)
    /\ UNCHANGED <<pending, pos, cycles, scratch, risk_args, ward_order,
                   weather_data, failed, cache, redis_available, flood_event_w,
                   allocVars, optVars>>

\* scheduled_cleanup: delete the rows with timestamp < utcnow() - 30 days.
\* The rows are in the order of their timestamps, so these are the k oldest
\* rows, k depending on the time that has passed.
\* The job is a coroutine of the scheduler's event loop and has no await: it
\* runs while no cycle runs or while the cycle waits for the weather, never
\* inside the cycle's loop over the wards.
Cleanup ==
    /\ pos \in {0, 1}
    /\ \E k \in 1..Len(table) :
          table' = SubSeq(table, k + 1, Len(table))
    /\ interleaved' = (interleaved \/ pos = 1)
    /\ UNCHANGED <<pending, pos, cycles, scratch, risk_args, ward_order,
                   weather_data, failed, cache, redis_available, flood_event_w,
                   allocVars, optVars>>

NextAdmin ==
    \/ StartCycle
    \/ ComputeWardWeighted
    \/ CommitCycle
    \/ UpdateWeights
    \/ Cleanup

SpecAdmin == Init /\ [][NextAdmin]_vars

WeightSum(w) ==
    w.forecast_rainfall_intensity + w.cumulative_rain_48h + w.baseline_vulnerability

\* C19: weights that do not sum to 1 are rejected before any zone is
\* processed, also when they come from the admin weight update: the weights
\* in force always sum to 1, and no record is computed with other weights.
C19_WeightsSumToOne ==
    [][/\ WeightSum(flood_event_w') = 100
       /\ Len(pending') > Len(pending) => WeightSum(flood_event_w) = 100]_vars

\* C20: stored records are append-only: a step of the program leaves every
\* stored row in place, and a commit adds at most one row per zone.
C20_AppendOnly ==
    [][/\ Len(table') >= Len(table)
       /\ SubSeq(table', 1, Len(table)) = table
       /\ \A i, j \in (Len(table) + 1)..Len(table') :
             table'[i].ward_id = table'[j].ward_id => i = j]_vars

----------------------------------------------------------------------------
(* The scheduled cycle next to an API-triggered cycle and the cleanup job, *)
(* all coroutines of the one event loop of the process                     *)

\* ward_weather = weather_data.get(ward.ward_id), and what calculate_full_risk
\* works on for the ward with it
InputsUnder(w, weather) ==
    IF w \in weather THEN {HeatwaveInput} ELSE {NoWeatherInput}

\* The loop of calculate_all_risks over wards[i..]: the lists of rows it can
\* add to its session, given the committed rows and the rows added so far
RECURSIVE LoopRows(_, _, _, _, _)
LoopRows(order, i, weather, committed, added) ==
    IF i > Len(order) THEN {added}
    ELSE UNION {LoopRows(order, i + 1, weather, committed, Append(added, r)) :
                   r \in UNION {calculate_full_risk(order[i], inp,
                                    Db(SessionRows(committed, added))) :
                                inp \in InputsUnder(order[i], weather)}}

\* cache_risk_scores for each of the rows, in their order
RECURSIVE CacheAll(_, _)
CacheAll(c, rows) ==
    IF rows = <<>> THEN c
    ELSE CacheAll(IF redis_available
                  THEN {r \in c : r.ward_id # Head(rows).ward_id} \cup {Head(rows)}
                  ELSE c,
                  Tail(rows))

\* POST /calculate-risks from the return of its await on: the loop over the
\* wards and db.commit(), with no await in between.  The handler is a
\* coroutine of the event loop, so this part runs while the scheduled cycle
\* is idle or waits for the weather, never inside that cycle's loop.
calculate_all_risks ==
    /\ pos \in {0, 1}
    /\ cycles < MaxCycles
    /\ \E order \in Orders : \E weather \in WeatherSets :
         \E rows \in LoopRows(order, 1, weather, table, <<>>) :
            /\ table' = table \o rows
            /\ cache' = CacheAll(cache, rows)
    /\ cycles' = cycles + 1
    /\ interleaved' = (interleaved \/ pos = 1)
    /\ UNCHANGED <<pending, pos, scratch, risk_args, ward_order, weather_data,
                   failed, redis_available, flood_event_w, allocVars, optVars>>

NextConc ==
    \/ StartCycleAny
    \/ ComputeWardCycle
    \/ CommitCycle
    \/ calculate_all_risks
    \/ Cleanup

SpecConc == InitCycle /\ [][NextConc]_vars

\* C23: all zones processed in one cycle see the same view of the stored
\* records, also when another cycle or the cleanup job commits while the
\* cycle is running: at every point of the cycle, each record produced so far
\* is what calculate_full_risk gives for its zone on one and the same set of
\* rows, the rows committed at that point.
C23_SameViewForAllZones ==
    \A r \in Rows(pending) :
        /\ r.spillover_source_wards = SpilloverSources(r.ward_id, Db(table))
        /\ r \in UNION {calculate_full_risk(r.ward_id, inp, Db(table)) :
                           inp \in InputsUnder(r.ward_id, weather_data)}

\* The API-triggered cycle committed its rows while the scheduled cycle,
\* started on an empty table, waited for the weather; the scheduled cycle has
\* then processed every zone, and every zone with neighbours has spillover
\* from all of them.
C23_Witness ==
    /\ interleaved
    /\ cycles = 1
    /\ Len(table) = NumWards
    /\ weather_data = AllWeather
    /\ pos = Len(ward_order) + 1
    /\ Len(pending) = NumWards
    /\ \A r \in Rows(pending) :
          r.spillover_source_wards = get_ward_adjacency(r.ward_id)
    /\ \E r \in Rows(pending) : r.neighbor_spillover_applied

====
